---- MODULE Spec2Model ----
(***************************************************************************)
(* Boundary-interaction state machine of the OpenDrift particle models     *)
(* BivalveLarvae (opendrift/models/bivalvelarvae.py) and SedimentDrift3D   *)
(* (opendrift/models/sedimentdrift3D.py).                                  *)
(*                                                                         *)
(* The element arrays of the program (self.elements.<field>) are one       *)
(* sequence of rows, a row being the record of its fields; the environment *)
(* arrays (self.environment.<field>) are a second sequence, parallel to    *)
(* it. previous_lon / previous_lat are indexed by particle ID: the slot    *)
(* previous_lon[ID - 1] of the 0-based program is previous_lon[ID] here.   *)
(* Lengths are in centimetres (z, sea floor depth), so that the 0.01 m of  *)
(* the resuspension is the integer 1; ages are in seconds.                 *)
(***************************************************************************)
EXTENDS Integers, Sequences, FiniteSets, TLC

\* ------------------------------------------------------------- bounds
NumParticles == 2      \* particles scheduled for release in one run
MaxSteps == 2          \* time steps of one run, before finalization
MaxLon == 2            \* longitudes 0..MaxLon; the cells at MaxLon are land
MaxLat == 1            \* latitudes 0..MaxLat
MaxDepth == 2          \* deepest sea floor, cm

\* An optional value of the program: None, or << x >> for the value x.
None == << >>
Some(x) == << x >>
Val(o) == o[1]

\* self.time_step.total_seconds()
TimeStep == 1

VARIABLES
    config,               \* the configuration store (get_config / set_config)
    elements,             \* the element arrays: a sequence of rows
    environment,          \* the environment arrays, parallel to elements
    previous_lon,         \* by particle ID
    previous_lat,         \* by particle ID
    newly_seeded_IDs,     \* None, or the IDs seeded this step
    elements_deactivated, \* the output record of the removed particles
    num_seeded,           \* IDs assigned so far
    steps,                \* time steps calculated
    pc,                   \* position of the simulation loop
    hist                  \* the last operation and the arrays it was given

vars == << config, elements, environment, previous_lon, previous_lat,
           newly_seeded_IDs, elements_deactivated, num_seeded, steps, pc, hist >>

IDs == 1..NumParticles
Lons == 0..MaxLon
Lats == 0..MaxLat

\* ------------------------------------------------- environment fields
\* land_binary_mask sampled at a position: 1 on land, 0 in water
LandAt(lon, lat) == IF lon = MaxLon THEN 1 ELSE 0

\* sea_floor_depth_below_sea_level sampled at a position (positive down)
DepthAt(lon, lat) == IF lon = 0 THEN MaxDepth ELSE MaxDepth - 1

\* self.sea_floor_depth(): the depth at every row's position
sea_floor_depth(els) == [r \in DOMAIN els |-> DepthAt(els[r].lon, els[r].lat)]

\* self.num_elements_active()
num_elements_active(els) == Len(els)

\* --------------------------------------------- deactivation primitive
\* deactivate_elements(mask, reason): records the reason as the status of
\* the selected rows that are still active; a terminal status is kept.
deactivate_elements(els, mask, reason) ==
    [r \in DOMAIN els |->
        IF mask[r] /\ els[r].status = "active"
        THEN [els[r] EXCEPT !.status = reason]
        ELSE els[r]]

\* The rows of the particles that are still active, in row order.
RECURSIVE ActiveRows(_, _)
ActiveRows(els, r) ==
    IF r > Len(els) THEN << >>
    ELSE IF els[r].status = "active"
         THEN << r >> \o ActiveRows(els, r + 1)
         ELSE ActiveRows(els, r + 1)

\* remove_deactivated_elements: the deactivated rows leave the element and
\* environment arrays before any further processing, and are kept for output.
\* variant: the deactivated rows stay in the arrays
NoCompact(arr, els) == arr

Compact(arr, els) ==
    LET keep == ActiveRows(els, 1) IN [i \in 1..Len(keep) |-> arr[keep[i]]]

Removed(els) == { els[r] : r \in { q \in DOMAIN els : els[q].status # "active" } }

\* ------------------------------------------------------ BivalveLarvae
\* self.elements.z < -sea_floor_depth
\* variant: a particle resting on the sea floor is selected too
at_or_below(z, depth) == z <= 0 - depth

below_at(z, depth) == z < 0 - depth

\* below the sea floor and old enough to settle
\* variant: a particle whose age equals the minimum age is not old enough
below_and_older_strict(z, depth, age, minage) == z < 0 - depth /\ age > minage

below_and_older_at(z, depth, age, minage) == below_at(z, depth) /\ age >= minage

\* below the sea floor and younger than the settlement age
\* variant: a particle whose age equals the minimum age is lifted too
below_and_younger_or_equal(z, depth, age, minage) == z < 0 - depth /\ age <= minage

below_and_younger_at(z, depth, age, minage) == below_at(z, depth) /\ age < minage

\* 'sea_floor_depth_below_sea_level' not in self.priority_list
\* variant: the depth data is taken to be missing
no_sea_floor_depth_assumed(cfg) == TRUE

no_sea_floor_depth(cfg) == ~cfg.has_sea_floor_depth

\* interact_with_seafloor: the element arrays after the call
interact_with_seafloor(cfg, els) ==
    LET depth == sea_floor_depth(els)
        minage == cfg.min_settlement_age_seconds
        below == { r \in DOMAIN els : below_at(els[r].z, depth[r]) }
        below_and_older ==
            [r \in DOMAIN els |->
                below_and_older_at(els[r].z, depth[r], els[r].age_seconds, minage)]
        below_and_younger ==
            [r \in DOMAIN els |->
                below_and_younger_at(els[r].z, depth[r], els[r].age_seconds, minage)]
        lifted == [r \in DOMAIN els |->
                     IF below_and_younger[r]
                     THEN [els[r] EXCEPT !.z = 0 - depth[r]]
                     ELSE els[r]]
    IN  IF num_elements_active(els) = 0 THEN els
        ELSE IF no_sea_floor_depth(cfg) THEN els
        ELSE IF below = {} THEN els
        ELSE deactivate_elements(lifted, below_and_older, "settled_on_bottom")

\* on land and seeded in this step
\* variant: the first of the newly seeded IDs is left out
seeded_on_land_after_first(flag, id, newly) == flag = 1 /\ id > newly[1]

seeded_on_land_at(flag, id, newly) == flag = 1 /\ id >= newly[1]

\* No minimum age input: every element on land is set back
\* variant: the branch without minimum age is never taken
no_minimum_age_negative(minage) == minage < 0

no_minimum_age(minage) == minage = 0

\* on land and younger than the settlement age
\* variant: the land flag is not tested, every young particle is set back
on_land_and_younger_unflagged(flag, age, minage) == age < minage

\* variant: a particle one time step below the minimum age is not younger
on_land_and_younger_before(flag, age, minage) == flag = 1 /\ age + TimeStep < minage

on_land_and_younger_at(flag, age, minage) == flag = 1 /\ age < minage

\* on land and old enough to settle
\* variant: a particle whose age equals the minimum age does not settle
on_land_and_older_strict(flag, age, minage) == flag = 1 /\ age > minage

on_land_and_older_at(flag, age, minage) == flag = 1 /\ age >= minage

\* previous_lon[ID - 1], previous_lat[ID - 1] of the element of row r
\* variant: the previous position is indexed by the row, not by the ID
previous_position_by_row(prev, r, id) == prev[r]

previous_position(prev, r, id) == prev[id]

\* self.environment.land_binary_mask[rows] = 0
\* variant: the mask is left as it was
keep_land_binary_mask(env, rows) == env

clear_land_binary_mask(env, rows) ==
    [r \in DOMAIN env |->
        IF r \in rows THEN [env[r] EXCEPT !.land_binary_mask = 0] ELSE env[r]]

\* not hasattr(self.environment, 'land_binary_mask')
\* variant: the presence of the land mask is not tested
no_land_binary_mask_unchecked(cfg) == FALSE

no_land_binary_mask(cfg) == ~cfg.has_land_binary_mask

\* final is True: get_environment(['land_binary_mask']) at the final location
\* variant: the stored flag is kept
stored_land_binary_mask(stored, lon, lat) == stored

final_land_binary_mask(stored, lon, lat) == LandAt(lon, lat)

\* interact_with_coastline(final): the element and environment arrays after
\* the call
interact_with_coastline(cfg, els, env, prev_lon, prev_lat, newly, final) ==
    LET minage == cfg.min_settlement_age_seconds
        \* final is True: land_binary_mask of the final location replaces the stored one
        env0 == IF final
                THEN [r \in DOMAIN env |->
                        [env[r] EXCEPT !.land_binary_mask =
                            final_land_binary_mask(env[r].land_binary_mask,
                                                   els[r].lon, els[r].lat)]]
                ELSE env
        els0 == IF newly # None
                THEN deactivate_elements(els,
                        [r \in DOMAIN els |->
                            seeded_on_land_at(env0[r].land_binary_mask, els[r].ID, newly)],
                        "seeded_on_land")
                ELSE els
        on_land == { r \in DOMAIN els : env0[r].land_binary_mask = 1 }
        on_land_and_younger ==
            { r \in DOMAIN els :
                on_land_and_younger_at(env0[r].land_binary_mask, els0[r].age_seconds, minage) }
        MoveBack(rows) ==
            [r \in DOMAIN els |->
                IF r \in rows
                THEN [els0[r] EXCEPT !.lon = previous_position(prev_lon, r, els0[r].ID),
                                     !.lat = previous_position(prev_lat, r, els0[r].ID)]
                ELSE els0[r]]
        env2 == clear_land_binary_mask(env0, on_land_and_younger)
    IN  IF no_land_binary_mask(cfg) THEN [els |-> els, env |-> env]
        ELSE IF on_land = {} THEN [els |-> els0, env |-> env0]
        ELSE IF no_minimum_age(minage)
        THEN [els |-> MoveBack(on_land), env |-> clear_land_binary_mask(env0, on_land)]
        ELSE [els |-> deactivate_elements(MoveBack(on_land_and_younger),
                        [r \in DOMAIN els |->
                            on_land_and_older_at(env2[r].land_binary_mask, els0[r].age_seconds, minage)],
                        "settled_on_coast"),
              env |-> env2]

\* age_seconds += self.time_step.total_seconds()
\* variant: the age is left as it was
age_increment_none(age) == age

age_increment(age) == age + TimeStep

\* self.elements.lon < W
\* variant: a particle on the western bound is outside too
west_of_or_on(lon, W) == lon <= W

west_of(lon, W) == lon < W

\* increase_age_and_retire: the element arrays after the call
\* variant: the validity domain is checked before the maximum age
increase_age_and_retire_domain_first(cfg, els) ==
    LET aged == [r \in DOMAIN els |->
                    [els[r] EXCEPT !.age_seconds = age_increment(els[r].age_seconds)]]
        dom == Val(cfg.validity_domain)
        Outside(r) ==
            \/ dom.W # None /\ west_of(aged[r].lon, Val(dom.W))
            \/ dom.E # None /\ aged[r].lon > Val(dom.E)
            \/ dom.S # None /\ aged[r].lat < Val(dom.S)
            \/ dom.N # None /\ aged[r].lat > Val(dom.N)
        out == IF cfg.validity_domain = None THEN aged
               ELSE deactivate_elements(aged, [r \in DOMAIN els |-> Outside(r)], "outside")
    IN  IF cfg.max_age_seconds # None
        THEN deactivate_elements(out,
                [r \in DOMAIN els |-> out[r].age_seconds >= Val(cfg.max_age_seconds)],
                "died")
        ELSE out

increase_age_and_retire(cfg, els) ==
    LET aged == [r \in DOMAIN els |->
                    [els[r] EXCEPT !.age_seconds = age_increment(els[r].age_seconds)]]
        died == IF cfg.max_age_seconds # None
                THEN deactivate_elements(aged,
                        [r \in DOMAIN els |-> aged[r].age_seconds >= Val(cfg.max_age_seconds)],
                        "died")
                ELSE aged
        dom == Val(cfg.validity_domain)
        w == IF dom.W # None
             THEN deactivate_elements(died, [r \in DOMAIN els |-> west_of(died[r].lon, Val(dom.W))], "outside")
             ELSE died
        e == IF dom.E # None
             THEN deactivate_elements(w, [r \in DOMAIN els |-> w[r].lon > Val(dom.E)], "outside")
             ELSE w
        s == IF dom.S # None
             THEN deactivate_elements(e, [r \in DOMAIN els |-> e[r].lat < Val(dom.S)], "outside")
             ELSE e
        n == IF dom.N # None
             THEN deactivate_elements(s, [r \in DOMAIN els |-> s[r].lat > Val(dom.N)], "outside")
             ELSE s
    IN  IF cfg.validity_domain = None THEN died ELSE n

\* update(): advect_ocean_current, then vertical mixing or buoyancy, then
\* vertical_advection move every row; the displacements come from the
\* forcing fields, mv[r] = << dlon, dlat, dz >>, and stay inside the grid.
Clip(x, lo, hi) == IF x < lo THEN lo ELSE IF x > hi THEN hi ELSE x

Drifts == { << 0, 0 >>, << 1, 1 >>, << -1, -1 >> }
Sinks == { -1, 0 }
Moves == { << d[1], d[2], dz >> : d \in Drifts, dz \in Sinks }

\* update(): the calls it makes, in the order of the code
\* variant: vertical_mixing is called whatever drift:vertical_mixing is
update_statements_mixing_always(cfg) ==
    << "advect_ocean_current", "update_terminal_velocity", "vertical_mixing",
       "vertical_advection" >>

update_statements(cfg) ==
    << "advect_ocean_current", "update_terminal_velocity",
       IF cfg.vertical_mixing = TRUE THEN "vertical_mixing" ELSE "vertical_buoyancy",
       "vertical_advection" >>

update(els, mv) ==
    [r \in DOMAIN els |->
        [els[r] EXCEPT !.lon = Clip(els[r].lon + mv[r][1], 0, MaxLon),
                       !.lat = Clip(els[r].lat + mv[r][2], 0, MaxLat),
                       !.z = Clip(els[r].z + mv[r][3], 0 - MaxDepth - 1, 0)]]

\* ------------------------------------------------ the simulation loop
MinSettlementAges == { 0, TimeStep, 2 * TimeStep }
MaxAgeSeconds == { None, Some(2 * TimeStep) }
ValidityDomains ==
    { None,
      Some([W |-> Some(1), E |-> None, S |-> None, N |-> Some(0)]),
      Some([W |-> None, E |-> Some(1), S |-> Some(1), N |-> None]) }

\* The configurations of a run. drift:vertical_mixing True is the default;
\* False is taken with the retirement settings left unset.
Configs ==
    { c \in [ min_settlement_age_seconds : MinSettlementAges,
              max_age_seconds : MaxAgeSeconds,
              validity_domain : ValidityDomains,
              vertical_mixing : BOOLEAN,
              has_land_binary_mask : BOOLEAN,
              has_sea_floor_depth : BOOLEAN ] :
        c.vertical_mixing = FALSE =>
            (c.max_age_seconds = None /\ c.validity_domain = None) }

\* the element arrays a further operation is given: remove_deactivated_elements
Live == Compact(elements, elements)
LiveEnv == Compact(environment, elements)

Output == elements_deactivated' = elements_deactivated \cup Removed(elements)

Init ==
    /\ config \in Configs
    /\ elements = << >>
    /\ environment = << >>
    /\ previous_lon = [i \in IDs |-> 0]
    /\ previous_lat = [i \in IDs |-> 0]
    /\ newly_seeded_IDs = None
    /\ elements_deactivated = {}
    /\ num_seeded = 0
    /\ steps = 0
    /\ pc = "release"
    /\ hist = [op |-> "init", els |-> << >>, env |-> << >>]

\* release_elements and get_environment: k particles are seeded with the
\* next IDs, at or one below the depth of the shallow sea floor; their
\* positions are stored as their previous positions, and the environment is
\* sampled at the position of every row.
SeedZs == { 0 - (MaxDepth - 1), 0 - MaxDepth }

Release ==
    /\ pc = "release"
    /\ \E k \in 0..(NumParticles - num_seeded) :
       \E at \in [1..k -> Lons \X Lats \X SeedZs] :
          LET new == [i \in 1..k |->
                        [ID |-> num_seeded + i, lon |-> at[i][1], lat |-> at[i][2],
                         z |-> at[i][3], age_seconds |-> 0,
                         status |-> "active"]]
              els == Live \o new
          IN  /\ elements' = els
              /\ environment' =
                    [r \in DOMAIN els |->
                        [land_binary_mask |-> LandAt(els[r].lon, els[r].lat)]]
              /\ previous_lon' =
                    [i \in IDs |-> IF i \in (num_seeded + 1)..(num_seeded + k)
                                   THEN at[i - num_seeded][1] ELSE previous_lon[i]]
              /\ previous_lat' =
                    [i \in IDs |-> IF i \in (num_seeded + 1)..(num_seeded + k)
                                   THEN at[i - num_seeded][2] ELSE previous_lat[i]]
              /\ newly_seeded_IDs' =
                    IF k = 0 THEN None ELSE [i \in 1..k |-> num_seeded + i]
              /\ num_seeded' = num_seeded + k
              /\ hist' = [op |-> "release", els |-> Live, env |-> LiveEnv]
    /\ Output
    /\ pc' = "coastline"
    /\ UNCHANGED << config, steps >>

Coastline ==
    /\ pc = "coastline"
    /\ LET out == interact_with_coastline(config, Live, LiveEnv, previous_lon,
                                          previous_lat, newly_seeded_IDs, FALSE)
       IN  /\ elements' = out.els
           /\ environment' = out.env
    /\ hist' = [op |-> "coastline", els |-> Live, env |-> LiveEnv]
    /\ Output
    /\ pc' = "seafloor"
    /\ UNCHANGED << config, previous_lon, previous_lat, newly_seeded_IDs,
                    num_seeded, steps >>

Seafloor ==
    /\ pc = "seafloor"
    /\ elements' = interact_with_seafloor(config, Live)
    /\ environment' = LiveEnv
    /\ hist' = [op |-> "seafloor", els |-> Live, env |-> LiveEnv]
    /\ Output
    /\ pc' = "update"
    /\ UNCHANGED << config, previous_lon, previous_lat, newly_seeded_IDs,
                    num_seeded, steps >>

\* store_present_positions, then update()
Update ==
    /\ pc = "update"
    /\ previous_lon' = [i \in IDs |->
            IF \E r \in DOMAIN Live : Live[r].ID = i
            THEN Live[CHOOSE r \in DOMAIN Live : Live[r].ID = i].lon
            ELSE previous_lon[i]]
    /\ previous_lat' = [i \in IDs |->
            IF \E r \in DOMAIN Live : Live[r].ID = i
            THEN Live[CHOOSE r \in DOMAIN Live : Live[r].ID = i].lat
            ELSE previous_lat[i]]
    /\ newly_seeded_IDs' = None
    /\ \E mv \in [DOMAIN Live -> Moves] : elements' = update(Live, mv)
    /\ environment' = LiveEnv
    /\ hist' = [op |-> "update", els |-> Live, env |-> LiveEnv,
                calls |-> update_statements(config)]
    /\ Output
    /\ pc' = "age"
    /\ UNCHANGED << config, num_seeded, steps >>

AgeAndRetire ==
    /\ pc = "age"
    /\ elements' = increase_age_and_retire(config, Live)
    /\ environment' = LiveEnv
    /\ hist' = [op |-> "age", els |-> Live, env |-> LiveEnv]
    /\ Output
    /\ steps' = steps + 1
    /\ pc' = IF steps + 1 >= MaxSteps THEN "final" ELSE "release"
    /\ UNCHANGED << config, previous_lon, previous_lat, newly_seeded_IDs, num_seeded >>

\* interact_with_coastline(final=True), at the end of the run
Final ==
    /\ pc = "final"
    /\ LET out == interact_with_coastline(config, Live, LiveEnv, previous_lon,
                                          previous_lat, newly_seeded_IDs, TRUE)
       IN  /\ elements' = out.els
           /\ environment' = out.env
    /\ hist' = [op |-> "final", els |-> Live, env |-> LiveEnv]
    /\ Output
    /\ pc' = "done"
    /\ UNCHANGED << config, previous_lon, previous_lat, newly_seeded_IDs,
                    num_seeded, steps >>

Next == Release \/ Coastline \/ Seafloor \/ Update \/ AgeAndRetire \/ Final

Spec == Init /\ [][Next]_vars

\* ---------------------------------------------------- SedimentDrift3D
\* Resuspend 1 cm above seafloor
ResuspensionHeight == 1

\* settling: at or below the level passed in, and moving
\* variant: only strictly below the level
settling_below(z, seafloor_depth, moving) == z < seafloor_depth /\ moving = 1

settling_at(z, seafloor_depth, moving) == z <= seafloor_depth /\ moving = 1

\* bottom_interaction(seafloor_depth): the element arrays after the call
bottom_interaction(els, seafloor_depth) ==
    LET depth == sea_floor_depth(els)
        lifted == [r \in DOMAIN els |->
                     IF els[r].z < 0 - depth[r]
                     THEN [els[r] EXCEPT !.z = 0 - depth[r]]
                     ELSE els[r]]
    IN  [r \in DOMAIN els |->
            IF settling_at(lifted[r].z, seafloor_depth[r], lifted[r].moving)
            THEN [lifted[r] EXCEPT !.moving = 0]
            ELSE lifted[r]]

\* drift:resuspension is True
\* variant: the configuration switch is not consulted
resuspension_always(cfg) == TRUE

resuspension_enabled(cfg) == cfg.resuspension = TRUE

\* resting on the bottom, under a stress above the critical one
\* variant: a stress equal to the critical one resuspends too
to_resuspend_at_or_above(moving, tau, critical_shear_stress) ==
    moving = 0 /\ tau >= critical_shear_stress

to_resuspend_at(moving, tau, critical_shear_stress) ==
    moving = 0 /\ tau > critical_shear_stress

\* The rows sediment_resuspension resuspends, given the maximum bed shear
\* stress tau_cw_max of every row.
to_resuspend(els, tau_cw_max) ==
    { r \in DOMAIN els :
        to_resuspend_at(els[r].moving, tau_cw_max[r], els[r].critical_shear_stress) }

\* sediment_resuspension(): the configuration and the element arrays after
\* the call. tau_cw_max is what bedshearstress_current_wave() returns for the
\* environment of this step; it is evaluated only with resuspension enabled.
sediment_resuspension(cfg, els, tau_cw_max) ==
    LET depth == sea_floor_depth(els)
        sel == to_resuspend(els, tau_cw_max)
    IN  IF resuspension_enabled(cfg)
        THEN [cfg |-> [cfg EXCEPT !.seafloor_action = "lift_to_seafloor"],
              els |-> [r \in DOMAIN els |->
                         IF r \in sel
                         THEN [els[r] EXCEPT !.z = 0 - depth[r] + ResuspensionHeight,
                                             !.moving = 1]
                         ELSE els[r]]]
        ELSE [cfg |-> cfg, els |-> els]

\* resuspension(): the alternate rule on the current speed, in units of 0.1 m/s
resuspension(els, current_speed) ==
    [r \in DOMAIN els |->
        IF current_speed[r] > 5 /\ els[r].moving = 0
        THEN [els[r] EXCEPT !.moving = 1, !.z = els[r].z + ResuspensionHeight]
        ELSE els[r]]

\* update(): "Sediment resuspension checks, if switched on". The call made
\* is sediment_resuspension(); resuspension() is not called. rules names the
\* resuspension rules that the statement applied to the elements.
\* variant: resuspension() is called as well
resuspension_check_both(cfg, els, tau_cw_max, current_speed) ==
    LET out == sediment_resuspension(cfg, els, tau_cw_max)
    IN  [cfg |-> out.cfg,
         els |-> resuspension(out.els, current_speed),
         rules |-> (IF resuspension_enabled(cfg) THEN { "shear_stress" } ELSE { })
                       \cup { "current_speed" }]

resuspension_check(cfg, els, tau_cw_max, current_speed) ==
    LET out == sediment_resuspension(cfg, els, tau_cw_max)
    IN  [cfg |-> out.cfg,
         els |-> out.els,
         rules |-> IF resuspension_enabled(cfg) THEN { "shear_stress" } ELSE { }]

\* base interact_with_seafloor, on general:seafloor_action
seafloor_action(cfg, els) ==
    LET depth == sea_floor_depth(els)
    IN  IF cfg.seafloor_action = "lift_to_seafloor"
        THEN [r \in DOMAIN els |->
                IF els[r].z < 0 - depth[r]
                THEN [els[r] EXCEPT !.z = 0 - depth[r]] ELSE els[r]]
        ELSE IF cfg.seafloor_action = "deactivate"
        THEN deactivate_elements(els,
                [r \in DOMAIN els |-> els[r].z < 0 - depth[r]], "seafloor")
        ELSE els

\* The transport of the rows that are moving: horizontal by d[r], vertical by
\* dz[r], inside the wet cells of the grid.
advect(els, d) ==
    [r \in DOMAIN els |->
        IF els[r].moving = 1
        THEN [els[r] EXCEPT !.lon = Clip(els[r].lon + d[r][1], 0, MaxLon - 1),
                            !.lat = Clip(els[r].lat + d[r][2], 0, MaxLat)]
        ELSE els[r]]

sink(els, dz) ==
    [r \in DOMAIN els |->
        IF els[r].moving = 1
        THEN [els[r] EXCEPT !.z = Clip(els[r].z + dz[r], 0 - MaxDepth - 1, 0)]
        ELSE els[r]]

CriticalShearStresses == { 0, 1 }
Taus == { 0, 1 }

\* self.current_speed() at a particle, in units of 0.1 m/s
CurrentSpeeds == { 0, 6 }

SedConfigs ==
    [ resuspension : BOOLEAN,
      vertical_mixing : BOOLEAN,
      seafloor_action : { "deactivate" },
      max_age_seconds : MaxAgeSeconds ]

SedInit ==
    /\ config \in SedConfigs
    /\ elements = << >>
    /\ environment = << >>
    /\ previous_lon = [i \in IDs |-> 0]
    /\ previous_lat = [i \in IDs |-> 0]
    /\ newly_seeded_IDs = None
    /\ elements_deactivated = {}
    /\ num_seeded = 0
    /\ steps = 0
    /\ pc = "seed"
    /\ hist = [op |-> "init", els |-> << >>, calls |-> << >>, rules |-> { }]

\* update(): its statements, in the order of the code
\* variant: the retirement comes before the resuspension check
update_sequence_retire_first(cfg) ==
    << "age_increment", "advect_ocean_current", "advect_wind", "stokes_drift",
       "update_terminal_velocity",
       IF cfg.vertical_mixing = TRUE THEN "vertical_mixing" ELSE "vertical_buoyancy",
       "vertical_advection", "retire", "sediment_resuspension" >>

update_sequence(cfg) ==
    << "age_increment", "advect_ocean_current", "advect_wind", "stokes_drift",
       "update_terminal_velocity",
       IF cfg.vertical_mixing = TRUE THEN "vertical_mixing" ELSE "vertical_buoyancy",
       "vertical_advection", "sediment_resuspension", "retire" >>

\* The position after the statement at of update(): the next statement, or
\* the seafloor interaction of the loop after the last one.
after(cfg, at) ==
    LET seq == update_sequence(cfg)
        i == CHOOSE j \in DOMAIN seq : seq[j] = at
    IN  IF i = Len(seq) THEN "interact_with_seafloor" ELSE seq[i + 1]

SedFrame == UNCHANGED << environment, previous_lon, previous_lat, newly_seeded_IDs >>

\* One step of update(): from pc = at to pc = to, the arrays becoming els.
SedStep(at, to, els) ==
    /\ pc = at
    /\ elements' = els
    /\ hist' = [op |-> at, els |-> elements, calls |-> Append(hist.calls, at),
                rules |-> hist.rules]
    /\ pc' = to
    /\ SedFrame
    /\ UNCHANGED << config, elements_deactivated, num_seeded, steps >>

\* seed_elements: the particles are seeded in the wet cells, at or one below
\* the depth of the shallow sea floor
SedSeed ==
    /\ pc = "seed"
    /\ \E at \in [IDs -> (0..(MaxLon - 1)) \X CriticalShearStresses \X SeedZs] :
          elements' = [i \in IDs |->
                         [ID |-> i, lon |-> at[i][1], lat |-> 0,
                          z |-> at[i][3], age_seconds |-> 0,
                          status |-> "active", moving |-> 1,
                          critical_shear_stress |-> at[i][2]]]
    /\ num_seeded' = NumParticles
    /\ hist' = [op |-> "seed", els |-> elements, calls |-> << >>, rules |-> { }]
    /\ pc' = "interact_with_seafloor"
    /\ SedFrame
    /\ UNCHANGED << config, elements_deactivated, steps >>

SedSeafloor ==
    /\ pc = "interact_with_seafloor"
    /\ elements' = seafloor_action(config, Live)
    /\ elements_deactivated' = elements_deactivated \cup Removed(elements)
    /\ hist' = [op |-> "interact_with_seafloor", els |-> Live, calls |-> << >>,
                rules |-> hist.rules]
    /\ pc' = IF steps >= MaxSteps THEN "done" ELSE update_sequence(config)[1]
    /\ SedFrame
    /\ UNCHANGED << config, num_seeded, steps >>

\* self.elements.age_seconds += self.time_step.total_seconds()
SedAge ==
    /\ pc = "age_increment"
    /\ elements' = [r \in DOMAIN Live |->
                        [Live[r] EXCEPT !.age_seconds = age_increment(Live[r].age_seconds)]]
    /\ elements_deactivated' = elements_deactivated \cup Removed(elements)
    /\ hist' = [op |-> "age_increment", els |-> Live, calls |-> << "age_increment" >>,
                rules |-> hist.rules]
    /\ pc' = after(config, "age_increment")
    /\ SedFrame
    /\ UNCHANGED << config, num_seeded, steps >>

SedAdvectOceanCurrent ==
    \E d \in [DOMAIN elements -> Drifts] :
        SedStep("advect_ocean_current", after(config, "advect_ocean_current"),
                advect(elements, d))

\* x_wind, y_wind and the Stokes drift are at their fallback 0
SedAdvectWind ==
    SedStep("advect_wind", after(config, "advect_wind"),
            advect(elements, [r \in DOMAIN elements |-> << 0, 0 >>]))

SedStokesDrift ==
    SedStep("stokes_drift", after(config, "stokes_drift"),
            advect(elements, [r \in DOMAIN elements |-> << 0, 0 >>]))

SedUpdateTerminalVelocity ==
    SedStep("update_terminal_velocity", after(config, "update_terminal_velocity"),
            elements)

\* vertical_mixing(): the vertical transport, then bottom_interaction at the
\* level of the sea floor
SedVerticalMixing ==
    /\ pc = "vertical_mixing"
    /\ \E dz \in [DOMAIN elements -> Sinks] :
          LET moved == sink(elements, dz)
              level == [r \in DOMAIN moved |-> 0 - sea_floor_depth(moved)[r]]
          IN  /\ elements' = bottom_interaction(moved, level)
              /\ hist' = [op |-> "vertical_mixing", els |-> elements,
                          calls |-> Append(hist.calls, "vertical_mixing"),
                          rules |-> hist.rules,
                          given |-> moved, seafloor_depth |-> level]
    /\ pc' = after(config, "vertical_mixing")
    /\ SedFrame
    /\ UNCHANGED << config, elements_deactivated, num_seeded, steps >>

SedVerticalBuoyancy ==
    \E dz \in [DOMAIN elements -> Sinks] :
        SedStep("vertical_buoyancy", after(config, "vertical_buoyancy"),
                sink(elements, dz))

\* drift:vertical_advection is False
SedVerticalAdvection ==
    SedStep("vertical_advection", after(config, "vertical_advection"), elements)

SedResuspension ==
    /\ pc = "sediment_resuspension"
    /\ \E tau \in [DOMAIN elements -> Taus] :
       \E speed \in [DOMAIN elements -> CurrentSpeeds] :
          LET out == resuspension_check(config, elements, tau, speed)
          IN  /\ elements' = out.els
              /\ config' = out.cfg
              /\ hist' = [op |-> "sediment_resuspension", els |-> elements,
                          calls |-> Append(hist.calls, "sediment_resuspension"),
                          rules |-> hist.rules \cup out.rules,
                          cfg |-> config,
                          current_speed |-> speed,
                          tau_cw_max |-> IF resuspension_enabled(config) THEN Some(tau) ELSE None]
    /\ pc' = after(config, "sediment_resuspension")
    /\ SedFrame
    /\ UNCHANGED << elements_deactivated, num_seeded, steps >>

\* Deactivate elements that exceed a certain age
SedRetire ==
    /\ pc = "retire"
    /\ elements' =
          IF config.max_age_seconds # None
          THEN deactivate_elements(elements,
                  [r \in DOMAIN elements |->
                      elements[r].age_seconds >= Val(config.max_age_seconds)],
                  "retired")
          ELSE elements
    /\ hist' = [op |-> "retire", els |-> elements, calls |-> Append(hist.calls, "retire"),
                rules |-> hist.rules]
    /\ steps' = steps + 1
    /\ pc' = after(config, "retire")
    /\ SedFrame
    /\ UNCHANGED << config, elements_deactivated, num_seeded >>

SedNext ==
    \/ SedSeed \/ SedSeafloor \/ SedAge \/ SedAdvectOceanCurrent \/ SedAdvectWind
    \/ SedStokesDrift \/ SedUpdateTerminalVelocity \/ SedVerticalMixing
    \/ SedVerticalBuoyancy \/ SedVerticalAdvection \/ SedResuspension \/ SedRetire

SpecSediment == SedInit /\ [][SedNext]_vars

\* ------------------------------------------------------ both variants
\* A run of either model: the BivalveLarvae loop or the SedimentDrift3D loop.
ModelsInit == Init \/ SedInit

ModelsNext == Next \/ SedNext

SpecModels == ModelsInit /\ [][ModelsNext]_vars

\* ------------------------------------------------- bed shear stress
\* The floating-point values of the physics functions, by class: zero, a
\* positive or negative finite number, a finite number of unknown sign, the
\* infinities, and not-a-number. The arithmetic is that of IEEE 754 as
\* numpy applies it: no operation raises, the result of x/0 is an infinity
\* ("divide": division by zero, which the logarithm of zero signals too) and
\* that of 0/0, inf*0 or inf-inf is not-a-number ("invalid").
\* The classes are "zero", "pos", "neg", "fin", "inf", "ninf" and "nan".
\* A value together with the floating-point exceptions met on the way to it.
F(v) == [v |-> v, e |-> { }]

FNeg(v) ==
    CASE v = "pos" -> "neg" [] v = "neg" -> "pos"
      [] v = "inf" -> "ninf" [] v = "ninf" -> "inf" [] OTHER -> v

\* the sign of a product or quotient of two values that are not zero or nan
SignOf(a, b) ==
    IF a = "fin" \/ b = "fin" THEN "fin"
    ELSE IF (a \in { "pos", "inf" }) = (b \in { "pos", "inf" }) THEN "pos" ELSE "neg"

Infinite(v) == v \in { "inf", "ninf" }

Signed(v, s) == IF s = "neg" THEN FNeg(v) ELSE v

MulV(a, b) ==
    IF a = "nan" \/ b = "nan" THEN "nan"
    ELSE IF (a = "zero" /\ Infinite(b)) \/ (Infinite(a) /\ b = "zero") THEN "nan"
    ELSE IF a = "zero" \/ b = "zero" THEN "zero"
    ELSE IF Infinite(a) \/ Infinite(b) THEN Signed("inf", SignOf(a, b))
    ELSE SignOf(a, b)

MulE(a, b) ==
    IF (a = "zero" /\ Infinite(b)) \/ (Infinite(a) /\ b = "zero")
    THEN { "invalid" } ELSE { }

DivV(a, b) ==
    IF a = "nan" \/ b = "nan" THEN "nan"
    ELSE IF b = "zero"
         THEN (IF a = "zero" THEN "nan" ELSE Signed("inf", SignOf(a, "pos")))
    ELSE IF Infinite(b) THEN (IF Infinite(a) THEN "nan" ELSE "zero")
    ELSE IF a = "zero" THEN "zero"
    ELSE IF Infinite(a) THEN Signed("inf", SignOf(a, b))
    ELSE SignOf(a, b)

DivE(a, b) ==
    IF a = "nan" \/ b = "nan" THEN { }
    ELSE IF b = "zero" THEN (IF a = "zero" THEN { "invalid" }
                             ELSE IF Infinite(a) THEN { } ELSE { "divide" })
    ELSE IF Infinite(a) /\ Infinite(b) THEN { "invalid" }
    ELSE { }

AddV(a, b) ==
    IF a = "nan" \/ b = "nan" THEN "nan"
    ELSE IF Infinite(a) /\ Infinite(b) THEN (IF a = b THEN a ELSE "nan")
    ELSE IF Infinite(a) THEN a
    ELSE IF Infinite(b) THEN b
    ELSE IF a = "zero" THEN b
    ELSE IF b = "zero" THEN a
    ELSE IF a = b THEN a
    ELSE "fin"

AddE(a, b) ==
    IF Infinite(a) /\ Infinite(b) /\ a # b THEN { "invalid" } ELSE { }

Mul(a, b) == [v |-> MulV(a.v, b.v), e |-> a.e \cup b.e \cup MulE(a.v, b.v)]
Div(a, b) == [v |-> DivV(a.v, b.v), e |-> a.e \cup b.e \cup DivE(a.v, b.v)]
Add(a, b) == [v |-> AddV(a.v, b.v), e |-> a.e \cup b.e \cup AddE(a.v, b.v)]
Sub(a, b) == Add(a, [b EXCEPT !.v = FNeg(b.v)])

\* np.sqrt, np.tanh, np.sinh, np.exp of a value that is not negative
Sqrt(a) == a
Tanh(a) == [a EXCEPT !.v = IF a.v = "inf" THEN "pos" ELSE a.v]
Sinh(a) == a
Exp(a) ==
    [a EXCEPT !.v = CASE a.v \in { "zero", "pos", "neg", "fin" } -> "pos"
                      [] a.v = "ninf" -> "zero"
                      [] OTHER -> a.v]

\* a ** p for a positive exponent p, a not negative
Pow(a) == a

\* a ** p for a negative exponent p, a not negative: 0 ** p divides by zero
PowNeg(a) ==
    [v |-> CASE a.v = "zero" -> "inf" [] a.v = "inf" -> "zero" [] OTHER -> a.v,
     e |-> a.e \cup (IF a.v = "zero" THEN { "divide" } ELSE { })]

\* np.minimum(a, c) for a positive constant c: not-a-number propagates
Minimum(a) == [a EXCEPT !.v = IF a.v = "inf" THEN "pos" ELSE a.v]

\* np.log(abs(ratio)) - 1 of the ratio of the water depth to z0: the
\* logarithm of zero is -inf and signals a division by zero; the water of a
\* positive depth is deeper than e * z0 = 2.7 mm.
LogMinusOne(ratio) ==
    [v |-> CASE ratio.v = "zero" -> "ninf" [] ratio.v = "inf" -> "inf"
             [] OTHER -> ratio.v,
     e |-> ratio.e \cup (IF ratio.v = "zero" THEN { "divide" } ELSE { })]

\* y = np.sqrt(x) * (x<1.) + x *(x>=1.): the comparisons give 0.0 or 1.0, both
\* 0.0 for not-a-number
seed(x) ==
    LET lt == IF x.v \in { "zero", "pos" } THEN F("pos") ELSE F("zero")
        ge == IF x.v \in { "pos", "inf" } THEN F("pos") ELSE F("zero")
    IN  IF x.v = "pos" THEN x
        ELSE Add(Mul(Sqrt(x), lt), Mul(x, ge))

\* t = np.tanh(y); y = y-((y*t -x)/(t+y*(1.0-t**2.0))). The correction of a
\* positive y towards the root of a positive x leaves y positive.
correction(x, y) ==
    LET t == Tanh(y)
        one_minus_t2 == IF t.v = "pos" THEN F("pos") ELSE Sub(F("pos"), Mul(t, t))
        slope == Add(t, Mul(y, one_minus_t2))
    IN  IF x.v = "pos" /\ y.v = "pos" THEN [y EXCEPT !.e = y.e \cup x.e]
        ELSE Sub(y, Div(Sub(Mul(y, t), x), slope))

\* qkhfs(w, h): kh after the three corrections
qkhfs(w, h) ==
    LET x == Div(Mul(Mul(w, w), h), F("pos"))
    IN  correction(x, correction(x, correction(x, seed(x))))

\* The class of a quantity of the environment that is not negative
Class(n) == IF n = 0 THEN F("zero") ELSE F("pos")

\* bedshearstress_current_wave() at one particle, from the water depth, the
\* current speed, the significant wave height and the wave period there:
\* the pair returned, and the sum tau_cur + tau_wave that tau_cw divides by
bedshearstress_current_wave(depth, speed, hs, tp) ==
    LET rho_water == F("pos")
        z0 == F("pos")
        water_depth == depth
        current_speed == speed
        Cdrag == Pow(Div(F("pos"), LogMinusOne(Div(water_depth, z0))))
        tau_cur == Mul(Mul(rho_water, Cdrag), Pow(current_speed))
        ksw == Mul(F("pos"), z0)
        w == Div(F("pos"), tp)
        kh == qkhfs(w, water_depth)
        Adelta == Div(hs, Mul(F("pos"), Sinh(kh)))
        Udelta == Div(Mul(F("pos"), hs), Mul(tp, Sinh(kh)))
        fw_swart == Minimum(Exp(Add(F("neg"),
                        Mul(F("pos"), PowNeg(Div(Adelta, ksw))))))
        tau_wave == Mul(Mul(Mul(F("pos"), rho_water), fw_swart), Pow(Udelta))
        sum == Add(tau_cur, tau_wave)
        tau_cw == Mul(tau_cur,
                      Add(F("pos"), Mul(F("pos"), Pow(Div(tau_wave, sum)))))
        tau_cw_max == Pow(Add(Add(Pow(tau_cur), Pow(tau_wave)),
                              Mul(Mul(Mul(F("pos"), tau_cur), tau_wave), F("pos"))))
    IN  [tau_cw |-> tau_cw, tau_cw_max |-> tau_cw_max, sum |-> sum]

\* tau_cw_max > critical_shear_stress, for a critical stress that is not
\* negative: False for not-a-number, and for two positive numbers what their
\* sizes make it (exceeds)
greater_than(tau, critical_shear_stress, exceeds) ==
    CASE tau = "inf" -> TRUE
      [] tau = "pos" -> (critical_shear_stress = 0 \/ exceeds)
      [] OTHER -> FALSE

\* sediment_resuspension() with resuspension enabled, on the stress that
\* bedshearstress_current_wave() returned
resuspend_under(els, tau_cw_max, exceeds) ==
    LET depth == [r \in DOMAIN els |-> environment[r].sea_floor_depth_below_sea_level]
    IN  [r \in DOMAIN els |->
            IF els[r].moving = 0
               /\ greater_than(tau_cw_max[r].v, els[r].critical_shear_stress, exceeds[r])
            THEN [els[r] EXCEPT !.z = 0 - depth[r] + ResuspensionHeight,
                                !.moving = 1]
            ELSE els[r]]

\* significant wave height and wave period of the environment; 0 is the
\* fallback value of both
WaveHeights == { 0, 1 }
WavePeriods == { 0, 1 }

\* The environment of one particle on the sea floor: every combination of a
\* zero and a positive water depth, current speed, wave height and period.
StressInit ==
    /\ config \in { c \in SedConfigs :
                      c.resuspension = TRUE /\ c.vertical_mixing = TRUE
                      /\ c.max_age_seconds = None }
    /\ \E lon \in 0..(MaxLon - 1) :
       \E depth \in { 0, DepthAt(lon, 0) } :
       \E speed \in CurrentSpeeds : \E hs \in WaveHeights : \E tp \in WavePeriods :
       \E moving \in { 0, 1 } : \E critical \in CriticalShearStresses :
          /\ elements = << [ID |-> 1, lon |-> lon, lat |-> 0, z |-> 0 - depth,
                            age_seconds |-> TimeStep, status |-> "active",
                            moving |-> moving,
                            critical_shear_stress |-> critical] >>
          /\ environment = << [sea_floor_depth_below_sea_level |-> depth,
                               current_speed |-> speed,
                               sea_surface_wave_significant_height |-> hs,
                               sea_surface_wave_period |-> tp] >>
    /\ previous_lon = [i \in IDs |-> 0]
    /\ previous_lat = [i \in IDs |-> 0]
    /\ newly_seeded_IDs = None
    /\ elements_deactivated = {}
    /\ num_seeded = 1
    /\ steps = 0
    /\ pc = "bedshearstress_current_wave"
    /\ hist = [op |-> "init", els |-> << >>]

\* tau_cw,tau_cw_max = self.bedshearstress_current_wave()
StressCompute ==
    /\ pc = "bedshearstress_current_wave"
    /\ hist' = [op |-> "bedshearstress_current_wave", els |-> elements,
                stress |-> [r \in DOMAIN elements |->
                    bedshearstress_current_wave(
                        Class(environment[r].sea_floor_depth_below_sea_level),
                        Class(environment[r].current_speed),
                        Class(environment[r].sea_surface_wave_significant_height),
                        Class(environment[r].sea_surface_wave_period))]]
    /\ config' = [config EXCEPT !.seafloor_action = "lift_to_seafloor"]
    /\ pc' = "to_resuspend"
    /\ UNCHANGED << elements, environment, previous_lon, previous_lat,
                    newly_seeded_IDs, elements_deactivated, num_seeded, steps >>

\* the comparison with the critical stress, and the resuspension
StressResuspend ==
    /\ pc = "to_resuspend"
    /\ \E exceeds \in [DOMAIN elements -> BOOLEAN] :
          elements' = resuspend_under(elements,
                          [r \in DOMAIN elements |-> hist.stress[r].tau_cw_max],
                          exceeds)
    /\ hist' = [op |-> "to_resuspend", els |-> elements, stress |-> hist.stress]
    /\ pc' = "done"
    /\ UNCHANGED << config, environment, previous_lon, previous_lat,
                    newly_seeded_IDs, elements_deactivated, num_seeded, steps >>

StressNext == StressCompute \/ StressResuspend

SpecStress == StressInit /\ [][StressNext]_vars

\* ------------------------------------------------- single calls
\* interact_with_coastline and increase_age_and_retire as functions of the
\* arrays they are given: every configuration with a land mask, every
\* position and age of each particle, and every tail of the IDs as the newly
\* seeded ones. The surrounding loop decides which of these a run meets; it
\* ages the particles it released before their first coastline interaction
\* when increase_age_and_retire precedes it.
CallAges == 0..(2 * TimeStep)

CallsInit ==
    /\ config \in { c \in Configs : c.has_land_binary_mask /\ c.has_sea_floor_depth
                                     /\ c.vertical_mixing }
    /\ \E at \in [IDs -> Lons \X Lats \X CallAges] :
          /\ elements = [i \in IDs |->
                            [ID |-> i, lon |-> at[i][1], lat |-> at[i][2],
                             z |-> 0 - (MaxDepth - 1), age_seconds |-> at[i][3],
                             status |-> "active"]]
          /\ environment = [i \in IDs |->
                            [land_binary_mask |-> LandAt(at[i][1], at[i][2])]]
    /\ previous_lon = [i \in IDs |-> 0]
    /\ previous_lat = [i \in IDs |-> 0]
    /\ newly_seeded_IDs \in
          { None } \cup { [i \in 1..k |-> NumParticles - k + i] : k \in 1..NumParticles }
    /\ elements_deactivated = {}
    /\ num_seeded = NumParticles
    /\ steps = 0
    /\ pc = "call_coastline"
    /\ hist = [op |-> "init", els |-> << >>, env |-> << >>]

CallCoastline ==
    /\ pc = "call_coastline"
    /\ LET out == interact_with_coastline(config, elements, environment, previous_lon,
                                          previous_lat, newly_seeded_IDs, FALSE)
       IN  /\ elements' = out.els
           /\ environment' = out.env
    /\ hist' = [op |-> "coastline", els |-> elements, env |-> environment]
    /\ pc' = "call_age"
    /\ UNCHANGED << config, previous_lon, previous_lat, newly_seeded_IDs,
                    elements_deactivated, num_seeded, steps >>

CallAgeAndRetire ==
    /\ pc = "call_age"
    /\ elements' = increase_age_and_retire(config, elements)
    /\ hist' = [op |-> "age", els |-> elements, env |-> environment]
    /\ pc' = "called"
    /\ UNCHANGED << config, environment, previous_lon, previous_lat,
                    newly_seeded_IDs, elements_deactivated, num_seeded, steps >>

CallsNext == CallCoastline \/ CallAgeAndRetire

SpecCalls == CallsInit /\ [][CallsNext]_vars

\* ------------------------------------------------- repeated steps
\* The BivalveLarvae loop under repeated steps: the steps are not counted and
\* the run does not end. drift:max_age_seconds is configured, the land mask
\* and the depth data are present, so that the particles can be set back at
\* the coast and lifted to the sea floor in every step.
RepeatInit ==
    /\ Init
    /\ config.max_age_seconds # None
    /\ config.validity_domain = None
    /\ config.has_land_binary_mask
    /\ config.has_sea_floor_depth

AgeAndRetireRepeat ==
    /\ pc = "age"
    /\ elements' = increase_age_and_retire(config, Live)
    /\ environment' = LiveEnv
    /\ hist' = [op |-> "age", els |-> Live, env |-> LiveEnv]
    /\ Output
    /\ pc' = "release"
    /\ UNCHANGED << config, previous_lon, previous_lat, newly_seeded_IDs, num_seeded,
                    steps >>

RepeatNext == Release \/ Coastline \/ Seafloor \/ Update \/ AgeAndRetireRepeat

\* The loop is sequential and every step completes: a step that can be taken
\* is taken.
SpecRepeat == RepeatInit /\ [][RepeatNext]_vars /\ WF_vars(RepeatNext)

\* ==================================================== the properties
\* Every particle of the run: the rows of the element arrays and the output
\* record of the removed ones.
Particles == { elements[r] : r \in DOMAIN elements } \cup elements_deactivated

\* The last operation was interact_with_coastline, with a land mask present.
CoastlineDone ==
    /\ hist.op \in { "coastline", "final" }
    /\ config.has_land_binary_mask

\* The land flag the call took its decisions on, for row r.
MaskGiven(r) ==
    IF hist.op = "final" THEN LandAt(hist.els[r].lon, hist.els[r].lat)
    ELSE hist.env[r].land_binary_mask

\* Row r holds a particle seeded in the step of the call.
SeededThisStep(r) ==
    newly_seeded_IDs # None /\ hist.els[r].ID >= newly_seeded_IDs[1]

MinAge == config.min_settlement_age_seconds

\* The last operation was interact_with_seafloor, with depth data available.
SeafloorDone ==
    /\ hist.op = "seafloor"
    /\ config.has_sea_floor_depth

\* Row r was below the sea floor when interact_with_seafloor was called.
WasBelow(r) == hist.els[r].z < 0 - DepthAt(hist.els[r].lon, hist.els[r].lat)

\* C1: terminal-state monotonicity. Over every step of the simulation loop
\* (release, coastline interaction, seafloor interaction, update,
\* age/retirement check, final coastline pass) a particle whose status is not
\* active keeps its status and its position (lon, lat, z).
C1_TerminalMonotone ==
    [][\A p \in Particles : p.status # "active" =>
          /\ \E q \in Particles' : q.ID = p.ID
          /\ \A q \in Particles' : q.ID = p.ID =>
                /\ q.status = p.status
                /\ q.lon = p.lon /\ q.lat = p.lat /\ q.z = p.z]_vars

\* A run that went on to its end after a particle was seeded on land, with
\* another particle still in the element arrays.
C1_Witness ==
    /\ pc = "done"
    /\ \E p \in elements_deactivated : p.status = "seeded_on_land"
    /\ \E p \in elements_deactivated : p.status \in { "settled_on_bottom", "died" }
    /\ steps = MaxSteps

C3_ZeroAgeNeverSettles ==
    MinAge = 0 =>
        /\ \A p \in Particles : p.status # "settled_on_coast"
        /\ CoastlineDone =>
              \A r \in DOMAIN hist.els :
                  (MaskGiven(r) = 1 /\ ~SeededThisStep(r)) =>
                      /\ elements[r].lon = previous_lon[hist.els[r].ID]
                      /\ elements[r].lat = previous_lat[hist.els[r].ID]
                      /\ elements[r].status = "active"

\* The final pass, with the minimum age 0, moved back a particle of age 2
\* steps that had touched land.
C3_Witness ==
    /\ MinAge = 0 /\ CoastlineDone /\ hist.op = "final"
    /\ \E r \in DOMAIN hist.els :
          /\ MaskGiven(r) = 1
          /\ hist.els[r].age_seconds = MaxSteps * TimeStep
          /\ elements[r].lon # hist.els[r].lon
          /\ elements[r].status = "active"

C6_SeededOnLand ==
    CoastlineDone =>
        \A r \in DOMAIN hist.els :
            (SeededThisStep(r) /\ MaskGiven(r) = 1) =>
                /\ elements[r].status = "seeded_on_land"
                /\ elements[r].lon = hist.els[r].lon
                /\ elements[r].lat = hist.els[r].lat

\* Under the largest minimum age, a particle seeded on land in a step in
\* which an older particle on land was moved back.
C6_Witness ==
    /\ CoastlineDone /\ MinAge = 2 * TimeStep
    /\ \E r \in DOMAIN hist.els :
          /\ SeededThisStep(r) /\ MaskGiven(r) = 1
          /\ elements[r].status = "seeded_on_land"
    /\ \E r \in DOMAIN hist.els :
          /\ ~SeededThisStep(r) /\ MaskGiven(r) = 1
          /\ elements[r].status = "active"

\* The rows whose position interact_with_coastline restores: on land, with no
\* minimum age or younger than it.
MovedBack(r) ==
    MaskGiven(r) = 1 /\ (MinAge = 0 \/ hist.els[r].age_seconds < MinAge)

\* C7: rollback is keyed by particle ID. After interact_with_coastline the
\* particle with ID i of every restored row is at previous_lon[i - 1],
\* previous_lat[i - 1], also when its row differs from its ID.
C7_RollbackByID ==
    CoastlineDone =>
        \A r \in DOMAIN hist.els :
            MovedBack(r) =>
                /\ elements[r].ID = hist.els[r].ID
                /\ elements[r].lon = previous_lon[elements[r].ID]
                /\ elements[r].lat = previous_lat[elements[r].ID]

\* Particle 1 has been removed, so that particle 2 is in row 1; it is moved
\* back to its own previous position, which is not that of slot 1.
C7_Witness ==
    /\ CoastlineDone
    /\ \E r \in DOMAIN hist.els :
          /\ MovedBack(r)
          /\ hist.els[r].ID # r
          /\ previous_lon[r] # previous_lon[hist.els[r].ID]
          /\ previous_lat[r] # previous_lat[hist.els[r].ID]
          /\ elements[r].lon # hist.els[r].lon
          /\ elements[r].status = "active"

C8_WitnessNoMinimumAge ==
    /\ CoastlineDone /\ MinAge = 0
    /\ \E r \in DOMAIN hist.els :
          /\ MovedBack(r) /\ elements[r].status = "active"
          /\ environment[r].land_binary_mask = 0

\* The last operation was one pass of sediment_resuspension.
ResuspensionDone == hist.op = "sediment_resuspension"

\* C9: shear-stress resuspension rule. With resuspension enabled, one pass of
\* sediment_resuspension gives z = -seafloor_depth + 0.01 m and moving = 1 to
\* exactly the particles that had moving = 0 and tau_cw_max strictly above
\* their critical_shear_stress, which stay active; every other particle keeps
\* its z and its moving flag.
C9_ShearStressRule ==
    (ResuspensionDone /\ hist.cfg.resuspension = TRUE) =>
        \A r \in DOMAIN hist.els :
            IF /\ hist.els[r].moving = 0
               /\ Val(hist.tau_cw_max)[r] > hist.els[r].critical_shear_stress
            THEN /\ elements[r].z =
                        0 - DepthAt(hist.els[r].lon, hist.els[r].lat) + ResuspensionHeight
                 /\ elements[r].moving = 1
                 /\ elements[r].status = "active"
            ELSE /\ elements[r].z = hist.els[r].z
                 /\ elements[r].moving = hist.els[r].moving

\* One pass that resuspended a resting particle and left on the bottom one
\* under a stress equal to its critical stress.
C9_Witness ==
    /\ ResuspensionDone /\ hist.cfg.resuspension = TRUE
    /\ \E r \in DOMAIN hist.els :
          /\ hist.els[r].moving = 0
          /\ Val(hist.tau_cw_max)[r] > hist.els[r].critical_shear_stress
          /\ elements[r].moving = 1
          /\ elements[r].z = hist.els[r].z + ResuspensionHeight
    /\ \E r \in DOMAIN hist.els :
          /\ hist.els[r].moving = 0
          /\ Val(hist.tau_cw_max)[r] = hist.els[r].critical_shear_stress
          /\ elements[r].moving = 0

\* C10: with drift:resuspension not enabled, sediment_resuspension changes no
\* particle (z, moving, status and every other field), does not evaluate the
\* bed shear stress, and leaves the configuration, general:seafloor_action
\* included, as it was.
C10_DisabledNoOp ==
    (ResuspensionDone /\ hist.cfg.resuspension = FALSE) =>
        /\ elements = hist.els
        /\ config = hist.cfg
        /\ hist.tau_cw_max = None

\* A pass with resuspension disabled over a resting particle of critical
\* stress 0, the configured seafloor action still being the default.
C10_Witness ==
    /\ ResuspensionDone /\ hist.cfg.resuspension = FALSE
    /\ config.seafloor_action = "deactivate"
    /\ \E r \in DOMAIN elements :
          /\ elements[r].moving = 0
          /\ elements[r].critical_shear_stress = 0
          /\ elements[r].status = "active"

\* The last operation of the sediment loop was the seafloor interaction.
SedSeafloorDone == hist.op = "interact_with_seafloor"

\* Row r of the arrays given to the last operation was below the sea floor.
SedWasBelow(r) == hist.els[r].z < 0 - DepthAt(hist.els[r].lon, hist.els[r].lat)

\* C11: with drift:resuspension enabled, bottom contact never deactivates a
\* particle, at any step of the run, the first included: no particle is ever
\* deactivated for the reason seafloor, every particle the seafloor
\* interaction finds below the sea floor is active after it, and every
\* particle that vertical_mixing leaves on the sea floor is active with
\* moving = 0.
C11_BottomContactKeepsActive ==
    config.resuspension = TRUE =>
        /\ \A p \in Particles : p.status # "seafloor"
        /\ SedSeafloorDone =>
              \A r \in DOMAIN hist.els :
                  SedWasBelow(r) => elements[r].status = "active"
        /\ hist.op = "vertical_mixing" =>
              \A r \in DOMAIN elements :
                  elements[r].z <= 0 - DepthAt(elements[r].lon, elements[r].lat) =>
                      elements[r].status = "active" /\ elements[r].moving = 0

\* The step is the age increment of either variant: increase_age_and_retire
\* of BivalveLarvae, the first statement of update() of SedimentDrift3D.
AgeStep == pc \in { "age", "age_increment" }

\* C12: age_seconds never decreases. Over every step of either loop the age of
\* a particle changes only in the age increment, where every active particle
\* gets exactly + time_step; the seafloor interaction, the coastline
\* interaction (rollback included), the final pass and the resuspension leave
\* it as it was.
C12_AgeMonotone ==
    [][\A p \in Particles : \A q \in Particles' : q.ID = p.ID =>
          /\ q.age_seconds >= p.age_seconds
          /\ q.age_seconds # p.age_seconds => AgeStep
          /\ (AgeStep /\ p.status = "active") =>
                q.age_seconds = p.age_seconds + TimeStep]_vars

\* A particle that has aged two steps is moved back from land by the
\* coastline interaction, with its age unchanged.
C12_Witness ==
    /\ CoastlineDone
    /\ \E r \in DOMAIN hist.els :
          /\ MovedBack(r)
          /\ elements[r].lon # hist.els[r].lon
          /\ elements[r].age_seconds = 2 * TimeStep
          /\ hist.els[r].age_seconds = 2 * TimeStep

\* The last operation was the age/retirement check of either variant:
\* increase_age_and_retire of BivalveLarvae, the end of update() of
\* SedimentDrift3D.
RetirementDone == hist.op \in { "age", "retire" }

\* The age of row r that the retirement compared with drift:max_age_seconds:
\* the age after this step's increment.
AgeChecked(r) ==
    IF hist.op = "age" THEN hist.els[r].age_seconds + TimeStep
    ELSE hist.els[r].age_seconds

\* The status of a particle retired for its age: died in BivalveLarvae, the
\* generic retired in SedimentDrift3D.
AgeReasons == { "died", "retired" }

\* C13: maximum-age retirement. With drift:max_age_seconds configured, the
\* age/retirement check retires every active particle whose age after this
\* step's increment exceeds max_age_seconds and no particle whose age does not
\* exceed it; with max_age_seconds None no particle is ever retired for age.
C13_MaxAgeExceeded ==
    /\ config.max_age_seconds = None =>
          \A p \in Particles : p.status \notin AgeReasons
    /\ (RetirementDone /\ config.max_age_seconds # None) =>
          \A r \in DOMAIN hist.els :
              hist.els[r].status = "active" =>
                  (elements[r].status \in AgeReasons
                      <=> AgeChecked(r) > Val(config.max_age_seconds))

\* The last operation was increase_age_and_retire.
AgeAndRetireDone == hist.op = "age"

\* Row r lies beyond a bound of the validity domain dom = [W, E, S, N]; a
\* bound that is None is skipped.
BeyondBound(dom, r) ==
    \/ dom.W # None /\ hist.els[r].lon < Val(dom.W)
    \/ dom.E # None /\ hist.els[r].lon > Val(dom.E)
    \/ dom.S # None /\ hist.els[r].lat < Val(dom.S)
    \/ dom.N # None /\ hist.els[r].lat > Val(dom.N)

\* C14: validity domain. After increase_age_and_retire a particle that the
\* maximum age did not retire is outside if and only if lon < W or lon > E or
\* lat < S or lat > N, the bounds that are None being skipped, and is active
\* otherwise, so that a particle on a bound stays active; without a validity
\* domain no particle is ever outside.
C14_ValidityDomain ==
    /\ config.validity_domain = None =>
          \A p \in Particles : p.status # "outside"
    /\ (AgeAndRetireDone /\ config.validity_domain # None) =>
          \A r \in DOMAIN hist.els :
              elements[r].status # "died" =>
                  elements[r].status =
                      IF BeyondBound(Val(config.validity_domain), r)
                      THEN "outside" ELSE "active"

\* One check, under a domain with two bounds None, that left active a
\* particle lying on both other bounds and put outside a particle beyond one.
C14_Witness ==
    /\ AgeAndRetireDone /\ config.validity_domain # None
    /\ \E r \in DOMAIN hist.els :
          /\ Some(hist.els[r].lon) = Val(config.validity_domain).W
          /\ Some(hist.els[r].lat) = Val(config.validity_domain).N
          /\ elements[r].status = "active"
    /\ \E r \in DOMAIN hist.els :
          /\ Some(hist.els[r].lon + 1) = Val(config.validity_domain).W
          /\ elements[r].status = "outside"

\* C15: missing environment data is a no-op. Without a sea floor depth field
\* interact_with_seafloor leaves the element arrays (z and status included) as
\* they were; without land_binary_mask interact_with_coastline, the final pass
\* too, leaves the element arrays (positions and status) and the environment
\* arrays as they were, and deactivates nothing.
C15_MissingDataNoOp ==
    /\ (hist.op = "seafloor" /\ ~config.has_sea_floor_depth) =>
          elements = hist.els /\ environment = hist.env
    /\ (hist.op \in { "coastline", "final" } /\ ~config.has_land_binary_mask) =>
          /\ elements = hist.els /\ environment = hist.env
          /\ \A r \in DOMAIN elements : elements[r].status = "active"

\* With neither field, a particle that has aged lies on land and below the sea
\* floor after interact_with_coastline and interact_with_seafloor, still
\* active, in a step in which a particle was seeded on land.
C15_Witness ==
    /\ hist.op = "seafloor"
    /\ ~config.has_sea_floor_depth /\ ~config.has_land_binary_mask
    /\ config.min_settlement_age_seconds = TimeStep
    /\ \E r \in DOMAIN elements :
          /\ LandAt(elements[r].lon, elements[r].lat) = 1
          /\ WasBelow(r)
          /\ elements[r].age_seconds >= TimeStep
          /\ elements[r].status = "active"
    /\ \E r \in DOMAIN elements :
          /\ SeededThisStep(r)
          /\ LandAt(elements[r].lon, elements[r].lat) = 1
          /\ elements[r].status = "active"

\* The operation about to run selects no particle: interact_with_seafloor
\* with an empty active population or no particle below the sea floor,
\* interact_with_coastline with no particle on land (by the stored mask, or by
\* the fresh one in the final pass), sediment_resuspension with no particle
\* resting under a stress above its critical one.
NoneBelow ==
    \A r \in DOMAIN Live :
        ~(Live[r].z < 0 - DepthAt(Live[r].lon, Live[r].lat))

NoneOnLand ==
    \A r \in DOMAIN Live :
        (IF pc = "final" THEN LandAt(Live[r].lon, Live[r].lat)
         ELSE LiveEnv[r].land_binary_mask) = 0

NoneToResuspend ==
    \/ hist'.tau_cw_max = None
    \/ \A r \in DOMAIN elements :
          ~(elements[r].moving = 0
            /\ Val(hist'.tau_cw_max)[r] > elements[r].critical_shear_stress)

\* C16: zero-selection short-circuit. An operation that selects no particle
\* leaves everything as it was: the element arrays (positions, status, moving
\* flags), the environment flags and the configuration store.
C16_ZeroSelectionNoOp ==
    [][/\ (pc = "seafloor" /\ NoneBelow) =>
             elements' = Live /\ environment' = LiveEnv /\ config' = config
       /\ (pc \in { "coastline", "final" } /\ NoneOnLand) =>
             elements' = Live /\ environment' = LiveEnv /\ config' = config
       /\ (pc = "sediment_resuspension" /\ NoneToResuspend) =>
             /\ elements' = elements /\ environment' = environment
             /\ config' = config]_vars

\* The same, for the two boundary interactions of BivalveLarvae alone.
C16_BoundaryInteractions ==
    [][/\ (pc = "seafloor" /\ NoneBelow) =>
             elements' = Live /\ environment' = LiveEnv /\ config' = config
       /\ (pc \in { "coastline", "final" } /\ NoneOnLand) =>
             elements' = Live /\ environment' = LiveEnv /\ config' = config]_vars

\* The positions that may follow position p inside update() of
\* SedimentDrift3D, as the claimed order has them.
Followers(p) ==
    CASE p = "age_increment" -> { "advect_ocean_current" }
      [] p = "advect_ocean_current" -> { "advect_wind" }
      [] p = "advect_wind" -> { "stokes_drift" }
      [] p = "stokes_drift" -> { "update_terminal_velocity" }
      [] p = "update_terminal_velocity" -> { "vertical_mixing", "vertical_buoyancy" }
      [] p = "vertical_mixing" -> { "vertical_advection" }
      [] p = "vertical_buoyancy" -> { "vertical_advection" }
      [] p = "vertical_advection" -> { "sediment_resuspension" }
      [] p = "sediment_resuspension" -> { "retire" }
      [] p = "retire" -> { "interact_with_seafloor" }
      [] p = "interact_with_seafloor" -> { "age_increment", "done" }
      [] OTHER -> { "interact_with_seafloor" }

\* C17: step ordering of the sediment update. Every step of the loop goes
\* from one statement of update() to the next in the order age increment,
\* current advection, wind advection, Stokes drift, terminal velocity,
\* vertical mixing or buoyancy, vertical advection, resuspension check,
\* retirement; the resuspension check reads the arrays that the vertical
\* advection of this step left, and the retirement those that the
\* resuspension check left.
C17_UpdateOrder ==
    [][/\ pc' \in Followers(pc)
       /\ pc = "sediment_resuspension" =>
             hist.op = "vertical_advection" /\ hist'.els = elements
       /\ pc = "retire" =>
             hist.op = "sediment_resuspension" /\ hist'.els = elements]_vars

\* In the first update a particle, seeded moving, was settled by this step's
\* vertical mixing (moving = 0) and resuspended by the resuspension check of
\* the same step.
C17_Witness ==
    /\ hist.op = "sediment_resuspension" /\ pc = "retire" /\ steps = 0
    /\ \E r \in DOMAIN elements :
          /\ hist.els[r].moving = 0 /\ hist.els[r].age_seconds = TimeStep
          /\ elements[r].moving = 1
          /\ elements[r].z = hist.els[r].z + ResuspensionHeight

\* The last operation completed one update(): of BivalveLarvae, or of
\* SedimentDrift3D with its last statement.
UpdateDone == hist.op \in { "update", "retire" }

\* The places of the call name among the calls of the last update().
Calls(name) == { i \in DOMAIN hist.calls : hist.calls[i] = name }

\* C18: in every update() of both variants exactly one of vertical_mixing and
\* vertical_buoyancy is called, vertical_mixing exactly when
\* drift:vertical_mixing is True; update_terminal_velocity is called exactly
\* once, before it, and vertical_advection exactly once, after it.
C18_MixingXorBuoyancy ==
    UpdateDone =>
        /\ Cardinality(Calls("vertical_mixing") \cup Calls("vertical_buoyancy")) = 1
        /\ Calls("vertical_mixing") # {} <=> config.vertical_mixing = TRUE
        /\ Cardinality(Calls("update_terminal_velocity")) = 1
        /\ Cardinality(Calls("vertical_advection")) = 1
        /\ \A j \in Calls("vertical_mixing") \cup Calls("vertical_buoyancy") :
              /\ \A i \in Calls("update_terminal_velocity") : i < j
              /\ \A k \in Calls("vertical_advection") : j < k

\* An update() of BivalveLarvae with drift:vertical_mixing False that called
\* vertical_buoyancy and moved a particle down.
C18_Witness ==
    /\ hist.op = "update" /\ config.vertical_mixing = FALSE
    /\ Calls("vertical_buoyancy") # {}
    /\ \E r \in DOMAIN elements : elements[r].z < hist.els[r].z

\* The land flag stored for row r when the call was made, and the one sampled
\* at the position row r had then.
StoredMask(r) == hist.env[r].land_binary_mask

FreshMask(r) == LandAt(hist.els[r].lon, hist.els[r].lat)

\* What interact_with_coastline does to row r when it takes the row to be on
\* land (flag 1) or not (flag 0). No particle is newly seeded in the final
\* pass.
DecidedOn(flag, r) ==
    IF flag = 0 THEN elements[r] = hist.els[r]
    ELSE IF SeededThisStep(r) THEN elements[r].status = "seeded_on_land"
    ELSE IF MinAge = 0 \/ hist.els[r].age_seconds < MinAge
    THEN /\ elements[r].status = "active"
         /\ elements[r].lon = previous_lon[hist.els[r].ID]
         /\ elements[r].lat = previous_lat[hist.els[r].ID]
         /\ environment[r].land_binary_mask = 0
    ELSE /\ elements[r].status = "settled_on_coast"
         /\ environment[r].land_binary_mask = 1

\* C19: finalization pass. interact_with_coastline(final=True) takes every
\* on-land decision on the land mask sampled at the current positions, which
\* replaces the stored one (a row not on land by the fresh mask is left alone
\* and its stored flag becomes the fresh 0); with final=False the decisions
\* are taken on the stored mask, which is kept for the rows not on land.
C19_FinalFreshMask ==
    CoastlineDone =>
        \A r \in DOMAIN hist.els :
            IF hist.op = "final"
            THEN /\ DecidedOn(FreshMask(r), r)
                 /\ FreshMask(r) = 0 => environment[r].land_binary_mask = 0
            ELSE /\ DecidedOn(StoredMask(r), r)
                 /\ StoredMask(r) = 0 => environment[r] = hist.env[r]

\* A final pass in which a particle whose stored flag was 0 had drifted onto
\* land and was settled there, next to a particle left alone in the water.
C19_Witness ==
    /\ CoastlineDone /\ hist.op = "final"
    /\ \E r \in DOMAIN hist.els :
          /\ StoredMask(r) = 0 /\ FreshMask(r) = 1
          /\ elements[r].status = "settled_on_coast"
    /\ \E r \in DOMAIN hist.els :
          /\ FreshMask(r) = 0 /\ elements[r].status = "active"

\* C20: the two resuspension triggers are mutually exclusive within one run.
\* At no point of a run have both the shear-stress rule
\* (sediment_resuspension()) and the current-speed rule (resuspension()) been
\* applied to the elements; a particle at rest that the shear-stress rule does
\* not select stays at rest however fast the current is.
C20_TriggersExclusive ==
    /\ ~({ "shear_stress", "current_speed" } \subseteq hist.rules)
    /\ ResuspensionDone =>
          \A r \in DOMAIN hist.els :
              (/\ hist.els[r].moving = 0
               /\ \/ hist.tau_cw_max = None
                  \/ ~(Val(hist.tau_cw_max)[r] > hist.els[r].critical_shear_stress)) =>
                  elements[r].moving = 0 /\ elements[r].z = hist.els[r].z

\* In a run in which the shear-stress rule had been applied in the first
\* update, a pass of the second update resuspended one particle at rest by
\* the shear stress and left at rest another one in a current faster than
\* 0.5 m/s.
C20_Witness ==
    /\ ResuspensionDone /\ steps = 1
    /\ hist.rules = { "shear_stress" }
    /\ \E r \in DOMAIN hist.els :
          /\ hist.els[r].moving = 0
          /\ Val(hist.tau_cw_max)[r] > hist.els[r].critical_shear_stress
          /\ elements[r].moving = 1
    /\ \E r \in DOMAIN hist.els :
          /\ hist.els[r].moving = 0
          /\ hist.current_speed[r] > 5
          /\ elements[r].moving = 0

\* The stress of row r was computed from a degenerate environment: a zero
\* water depth, wave period or wave height, or a zero sum tau_cur + tau_wave.
StressDone == hist.op \in { "bedshearstress_current_wave", "to_resuspend" }

Degenerate(r) ==
    \/ environment[r].sea_floor_depth_below_sea_level = 0
    \/ environment[r].sea_surface_wave_period = 0
    \/ environment[r].sea_surface_wave_significant_height = 0
    \/ hist.stress[r].sum.v = "zero"

Finite(x) == x.v \in { "zero", "pos", "neg", "fin" }

\* C21: on degenerate inputs (water depth 0, wave period 0, significant wave
\* height 0, or tau_cur + tau_wave = 0) the computation of the bed shear
\* stress meets no division by zero, no logarithm of zero and no invalid
\* operation, both stresses returned are finite, and the particle is not
\* resuspended.
C21_DegenerateInputsGuarded ==
    StressDone =>
        \A r \in DOMAIN hist.els :
            Degenerate(r) =>
                /\ hist.stress[r].tau_cw.e = { }
                /\ hist.stress[r].tau_cw_max.e = { }
                /\ Finite(hist.stress[r].tau_cw)
                /\ Finite(hist.stress[r].tau_cw_max)
                /\ (hist.op = "to_resuspend" => elements[r] = hist.els[r])

\* The last operation was vertical_mixing, which ends with bottom_interaction
\* on the arrays hist.given at the level hist.seafloor_depth.
BottomInteractionDone == hist.op = "vertical_mixing"

\* C23: after bottom_interaction every particle is at or above the sea floor,
\* the ones given below it exactly on it; every particle then at or below
\* the level passed in that was moving has moving = 0; the particles above
\* the level keep their moving flag; and the status of every particle, and
\* everything else of it, is unchanged.
C23_BottomInteraction ==
    BottomInteractionDone =>
        /\ DOMAIN elements = DOMAIN hist.given
        /\ \A r \in DOMAIN elements :
              LET floor == 0 - DepthAt(hist.given[r].lon, hist.given[r].lat)
              IN  /\ elements[r].z >= floor
                  /\ hist.given[r].z < floor => elements[r].z = floor
                  /\ hist.given[r].z >= floor => elements[r].z = hist.given[r].z
                  /\ (elements[r].z <= hist.seafloor_depth[r]
                         /\ hist.given[r].moving = 1) => elements[r].moving = 0
                  /\ elements[r].z > hist.seafloor_depth[r] =>
                         elements[r].moving = hist.given[r].moving
                  /\ elements[r].status = hist.given[r].status
                  /\ elements[r] = [hist.given[r] EXCEPT !.z = elements[r].z,
                                                         !.moving = elements[r].moving]

\* bottom_interaction was given a moving particle below the sea floor, which
\* it lifted and settled, and a moving particle above it, which it left alone
C23_Witness ==
    /\ BottomInteractionDone
    /\ \E r \in DOMAIN elements :
          /\ hist.given[r].z < 0 - DepthAt(hist.given[r].lon, hist.given[r].lat)
          /\ hist.given[r].moving = 1
          /\ elements[r].moving = 0
          /\ elements[r].status = "active"
    /\ \E r \in DOMAIN elements :
          /\ hist.given[r].z > hist.seafloor_depth[r]
          /\ hist.given[r].moving = 1
          /\ elements[r].moving = 1

\* C24: coastline post-condition. After interact_with_coastline with a land
\* mask present no active particle has the land flag 1: every particle the
\* call found on land is active at its previous position with the flag
\* cleared, or is not active any more (seeded_on_land or settled_on_coast),
\* whatever the minimum settlement age, the ages and the seeding times.
C24_NoActiveOnLand ==
    CoastlineDone =>
        /\ \A r \in DOMAIN elements :
              elements[r].status = "active" => environment[r].land_binary_mask = 0
        /\ \A r \in DOMAIN hist.els :
              MaskGiven(r) = 1 =>
                  \/ /\ elements[r].status = "active"
                     /\ environment[r].land_binary_mask = 0
                     /\ elements[r].lon = previous_lon[hist.els[r].ID]
                     /\ elements[r].lat = previous_lat[hist.els[r].ID]
                  \/ elements[r].status \in { "seeded_on_land", "settled_on_coast" }

\* One call, with a minimum age set, met a particle on land younger than the
\* minimum age, which it set back, and a particle on land as old as the
\* minimum age, which it settled.
C24_Witness ==
    /\ CoastlineDone
    /\ MinAge > 0
    /\ \E r \in DOMAIN hist.els :
          /\ MaskGiven(r) = 1
          /\ hist.els[r].age_seconds > 0
          /\ hist.els[r].age_seconds < MinAge
          /\ elements[r].status = "active"
          /\ environment[r].land_binary_mask = 0
    /\ \E r \in DOMAIN hist.els :
          /\ MaskGiven(r) = 1
          /\ hist.els[r].age_seconds = MinAge
          /\ elements[r].status = "settled_on_coast"

\* C25: seafloor post-condition. After interact_with_seafloor with depth data
\* available no active particle is below the sea floor, and every particle
\* that was at or above the sea floor before the call has the z and the
\* status it had.
C25_NoActiveBelow ==
    SeafloorDone =>
        /\ \A r \in DOMAIN elements :
              elements[r].status = "active" =>
                  elements[r].z >= 0 - DepthAt(elements[r].lon, elements[r].lat)
        /\ \A r \in DOMAIN hist.els :
              ~WasBelow(r) =>
                  /\ elements[r].z = hist.els[r].z
                  /\ elements[r].status = hist.els[r].status

\* One call met a particle below the sea floor younger than the minimum age,
\* which it lifted onto it, and a particle above it, which it left alone.
C25_Witness ==
    /\ SeafloorDone
    /\ \E r \in DOMAIN hist.els :
          /\ WasBelow(r)
          /\ hist.els[r].age_seconds < MinAge
          /\ elements[r].status = "active"
          /\ elements[r].z = 0 - DepthAt(elements[r].lon, elements[r].lat)
    /\ \E r \in DOMAIN hist.els :
          /\ ~WasBelow(r)
          /\ hist.els[r].z < 0
          /\ elements[r].status = "active"

\* C26: one deactivation reason, that of the first matching check in code
\* order. After increase_age_and_retire every active particle given whose age
\* reached the maximum age is died, outside the validity domain or not, and
\* no particle it was given already retired changes its status; after
\* interact_with_coastline every active particle given on land that was
\* seeded in this step is seeded_on_land, old enough to settle or not.
C26_FirstReasonKept ==
    /\ AgeAndRetireDone =>
          \A r \in DOMAIN hist.els :
              /\ hist.els[r].status # "active" => elements[r].status = hist.els[r].status
              /\ (hist.els[r].status = "active" /\ config.max_age_seconds # None
                    /\ AgeChecked(r) >= Val(config.max_age_seconds)) =>
                      elements[r].status = "died"
    /\ CoastlineDone =>
          \A r \in DOMAIN hist.els :
              (hist.els[r].status = "active" /\ MaskGiven(r) = 1 /\ SeededThisStep(r)) =>
                  elements[r].status = "seeded_on_land"

\* After the two calls one particle that was on land, newly seeded and old
\* enough to settle is seeded_on_land, and one particle that reached the
\* maximum age outside the validity domain is died.
C26_Witness ==
    /\ AgeAndRetireDone
    /\ MinAge > 0
    /\ config.max_age_seconds # None
    /\ config.validity_domain # None
    /\ \E r \in DOMAIN hist.els :
          /\ hist.els[r].status = "seeded_on_land"
          /\ newly_seeded_IDs # None /\ hist.els[r].ID >= newly_seeded_IDs[1]
          /\ hist.els[r].age_seconds >= MinAge
          /\ elements[r].status = "seeded_on_land"
    /\ \E r \in DOMAIN hist.els :
          /\ hist.els[r].status = "active"
          /\ AgeChecked(r) >= Val(config.max_age_seconds)
          /\ BeyondBound(Val(config.validity_domain), r)
          /\ elements[r].status = "died"

\* C27: resting on the bottom is not settling. Over every step of the loop an
\* active particle becomes settled_on_bottom only in interact_with_seafloor
\* with depth data, when it is strictly below the sea floor with its age at or
\* above the minimum settlement age; and interact_with_seafloor leaves a
\* particle whose z is exactly -seafloor_depth as it is, whatever its age.
C27_RestingNotSettling ==
    [][\A p \in Particles : \A q \in Particles' :
          (q.ID = p.ID /\ p.status = "active") =>
              /\ q.status = "settled_on_bottom" =>
                    /\ pc = "seafloor"
                    /\ config.has_sea_floor_depth
                    /\ p.z < 0 - DepthAt(p.lon, p.lat)
                    /\ p.age_seconds >= MinAge
              /\ (pc = "seafloor" /\ p.z = 0 - DepthAt(p.lon, p.lat)) => q = p]_vars

\* interact_with_seafloor met a particle resting exactly on the sea floor that
\* had grown as old as the minimum settlement age, and left it active there.
C27_Witness ==
    /\ SeafloorDone
    /\ MinAge > 0
    /\ \E r \in DOMAIN hist.els :
          /\ hist.els[r].z = 0 - DepthAt(hist.els[r].lon, hist.els[r].lat)
          /\ hist.els[r].age_seconds >= MinAge
          /\ elements[r].status = "active"
          /\ elements[r].z = hist.els[r].z

\* The records a and b hold the same horizontal position.
SameLonLat(a, b) == a.lon = b.lon /\ a.lat = b.lat

\* C28: frame effects of the boundary operations. interact_with_seafloor
\* leaves lon, lat, age_seconds and the land flag of every particle as they
\* were; interact_with_coastline leaves z and age_seconds as they were and
\* changes lon or lat only of particles it sets back (on land, with no minimum
\* age or younger than it); sediment_resuspension and bottom_interaction leave
\* lon, lat, age_seconds and status as they were.
C28_FrameEffects ==
    /\ hist.op = "seafloor" =>
          \A r \in DOMAIN hist.els :
              /\ SameLonLat(elements[r], hist.els[r])
              /\ elements[r].age_seconds = hist.els[r].age_seconds
              /\ environment[r].land_binary_mask = hist.env[r].land_binary_mask
    /\ hist.op \in { "coastline", "final" } =>
          \A r \in DOMAIN hist.els :
              /\ elements[r].z = hist.els[r].z
              /\ elements[r].age_seconds = hist.els[r].age_seconds
              /\ ~SameLonLat(elements[r], hist.els[r]) =>
                    (config.has_land_binary_mask /\ MovedBack(r))
    /\ hist.op = "sediment_resuspension" =>
          \A r \in DOMAIN hist.els :
              /\ SameLonLat(elements[r], hist.els[r])
              /\ elements[r].age_seconds = hist.els[r].age_seconds
              /\ elements[r].status = hist.els[r].status
    /\ hist.op = "vertical_mixing" =>
          \A r \in DOMAIN hist.given :
              /\ SameLonLat(elements[r], hist.given[r])
              /\ elements[r].age_seconds = hist.given[r].age_seconds
              /\ elements[r].status = hist.given[r].status

\* interact_with_coastline set a particle of positive age back to another
\* position, keeping its z and age, next to a particle in the water that it
\* left where it was.
C28_Witness ==
    /\ CoastlineDone
    /\ \E r \in DOMAIN hist.els :
          /\ MovedBack(r)
          /\ hist.els[r].age_seconds > 0
          /\ ~SameLonLat(elements[r], hist.els[r])
          /\ elements[r].z = hist.els[r].z
          /\ elements[r].age_seconds = hist.els[r].age_seconds
    /\ \E r \in DOMAIN hist.els :
          /\ MaskGiven(r) = 0
          /\ elements[r] = hist.els[r]

\* interact_with_seafloor lifted or settled a particle, keeping its position,
\* age and land flag.
C28_WitnessSeafloor ==
    /\ SeafloorDone
    /\ \E r \in DOMAIN hist.els :
          /\ WasBelow(r)
          /\ elements[r] # hist.els[r]
          /\ SameLonLat(elements[r], hist.els[r])

\* sediment_resuspension lifted a particle that bottom_interaction had
\* settled in the same update, keeping its position, age and status.
C28_WitnessSediment ==
    /\ hist.op = "sediment_resuspension"
    /\ \E i \in DOMAIN hist.calls : hist.calls[i] = "vertical_mixing"
    /\ \E r \in DOMAIN hist.els :
          /\ hist.els[r].moving = 0
          /\ elements[r].moving = 1
          /\ SameLonLat(elements[r], hist.els[r])
          /\ elements[r].status = hist.els[r].status

\* The particle with ID i is in the element arrays, active.
IsActive(i) ==
    \E r \in DOMAIN elements : elements[r].ID = i /\ elements[r].status = "active"

\* The particle with ID i has left the active state.
HasLeft(i) == \E p \in Particles : p.ID = i /\ p.status # "active"

====
